---- MODULE Spec2Model ----
(***************************************************************************)
(* A model of src/src/logging.ts: the logger factory (createLogger), the   *)
(* _emit interceptor that redacts every record, the request logging        *)
(* middleware (createLoggingMiddleware) and the req/res serializers        *)
(* (createDetailedRequestSerializers).                                     *)
(*                                                                         *)
(* JavaScript objects live in a heap (address -> cell) so that aliasing    *)
(* between the caller's payload and the log record is visible; JSON text   *)
(* is a sequence of tokens, written by JSONstringify and read back by      *)
(* JSONparse.                                                              *)
(*                                                                         *)
(* The libraries the file calls are modelled by what they do at the call   *)
(* sites: bunyan (record construction, level filtering, child loggers),    *)
(* fast-redact (path rules that overwrite in place) and the middleware of  *)
(* @google-cloud/logging (child logger per request, request log on the end *)
(* of the response, one call of next).                                     *)
(***************************************************************************)
EXTENDS Integers, Sequences, FiniteSets, TLC

VARIABLES
    env,        \* process.env: GAE_SERVICE, K_SERVICE, LOG_LEVEL
    opts,       \* the argument of createLogger: level, redact
    logger,     \* the logger createLogger returned (or why there is none)
    children,   \* the child loggers derived with logger.child
    heap,       \* the caller's objects: address -> cell
    calls,      \* number of log calls issued so far
    raised,     \* the log calls that threw to their call site
    emitLog,    \* the invocations of the patched _emit, in order
    written,    \* the invocations of the original _emit, in order
    reqs,       \* the HTTP exchanges the middleware has seen
    serIn,      \* the value handed to a serializer
    serOut      \* what the serializer returned for it

vars == <<env, opts, logger, children, heap, calls, raised, emitLog, written,
          reqs, serIn, serOut>>

-----------------------------------------------------------------------------
(* Bounds of the model.                                                    *)

MaxCalls == 2
MaxChildren == 1
MaxReqs == 2

-----------------------------------------------------------------------------
(* JavaScript values.                                                      *)

Str(s) == [t |-> "str", s |-> s]
Num(n) == [t |-> "num", n |-> n]
Obj(o) == [t |-> "obj", o |-> o]      \* an object held by value (fresh)
Ref(a) == [t |-> "ref", a |-> a]      \* an object of the heap, by address
Bool(b) == [t |-> "bool", b |-> b]
Undefined == [t |-> "undef"]
BigIntVal == [t |-> "bigint"]         \* a value JSON.stringify throws on

EmptyObj == [k \in {} |-> Undefined]

IsObject(v) == v.t \in {"obj", "ref"}

\* The cell behind an object value.
CellOf(h, v) == IF v.t = "ref" THEN h[v.a] ELSE v.o

\* JavaScript truthiness of a value.
Truthy(v) ==
    CASE v.t = "str" -> v.s # ""
      [] v.t = "num" -> v.n # 0
      [] v.t = "bool" -> v.b
      [] v.t = "undef" -> FALSE
      [] OTHER -> TRUE

\* a || b
OrElse(a, b) == IF Truthy(a) THEN a ELSE b

\* o.k, undefined when the property is missing or o is no object.
Get(h, v, k) ==
    IF IsObject(v) /\ k \in DOMAIN CellOf(h, v) THEN CellOf(h, v)[k]
    ELSE Undefined

\* A value with every reference replaced by the object it points to: what a
\* reader of the object graph sees.
RECURSIVE Resolve(_, _)
Resolve(h, v) ==
    IF IsObject(v)
    THEN LET c == CellOf(h, v)
         IN  Obj([k \in DOMAIN c |-> Resolve(h, c[k])])
    ELSE v

-----------------------------------------------------------------------------
(* JSON text: a sequence of tokens.                                        *)

LB == [t |-> "p", s |-> "{"]
RB == [t |-> "p", s |-> "}"]
COLON == [t |-> "p", s |-> ":"]
COMMA == [t |-> "p", s |-> ","]
STok(s) == [t |-> "s", s |-> s]       \* a string literal
NTok(n) == [t |-> "n", n |-> n]       \* a number literal
BTok(b) == [t |-> "b", b |-> b]       \* true or false

\* JSON.stringify throws a TypeError on a BigInt anywhere in the value.
RECURSIVE Serializable(_, _)
Serializable(h, v) ==
    CASE v.t = "bigint" -> FALSE
      [] IsObject(v) ->
            \A k \in DOMAIN CellOf(h, v) : Serializable(h, CellOf(h, v)[k])
      [] OTHER -> TRUE

\* JSON.stringify of a serializable value. A property whose value is
\* undefined is left out.
RECURSIVE JSONstringify(_, _), Members(_, _, _, _)
JSONstringify(h, v) ==
    CASE v.t = "str" -> <<STok(v.s)>>
      [] v.t = "num" -> <<NTok(v.n)>>
      [] v.t = "bool" -> <<BTok(v.b)>>
      [] IsObject(v) ->
            <<LB>> \o Members(h, CellOf(h, v), DOMAIN CellOf(h, v), TRUE)
                   \o <<RB>>
      [] OTHER -> <<>>

\* The members of cell c with a key in keys, one after the other.
Members(h, c, keys, first) ==
    IF keys = {} THEN <<>>
    ELSE LET k == CHOOSE x \in keys : TRUE
         IN  IF c[k].t # "undef"
             THEN (IF first THEN <<>> ELSE <<COMMA>>)
                  \o <<STok(k), COLON>> \o JSONstringify(h, c[k])
                  \o Members(h, c, keys \ {k}, FALSE)
             ELSE Members(h, c, keys \ {k}, first)

\* JSON.parse: [ok, val, rest]; ok is FALSE where JSON.parse throws a
\* SyntaxError. A parsed object is a fresh one; a repeated key keeps its
\* last value.
ParseFail == [ok |-> FALSE, val |-> Undefined, rest |-> <<>>]

RECURSIVE ParseValue(_), ParseMembers(_, _)
ParseValue(toks) ==
    IF toks = <<>> THEN ParseFail
    ELSE LET hd == Head(toks)
         IN  CASE hd.t = "s" -> [ok |-> TRUE, val |-> Str(hd.s), rest |-> Tail(toks)]
               [] hd.t = "n" -> [ok |-> TRUE, val |-> Num(hd.n), rest |-> Tail(toks)]
               [] hd.t = "b" -> [ok |-> TRUE, val |-> Bool(hd.b), rest |-> Tail(toks)]
               [] hd = LB ->
                     IF Len(toks) >= 2 /\ toks[2] = RB
                     THEN [ok |-> TRUE, val |-> Obj(EmptyObj),
                           rest |-> Tail(Tail(toks))]
                     ELSE ParseMembers(Tail(toks), EmptyObj)
               [] OTHER -> ParseFail

ParseMembers(toks, acc) ==
    IF Len(toks) < 3 \/ toks[1].t # "s" \/ toks[2] # COLON THEN ParseFail
    ELSE LET v == ParseValue(Tail(Tail(toks)))
         IN  IF ~v.ok \/ v.rest = <<>> THEN ParseFail
             ELSE LET acc2 == (toks[1].s :> v.val) @@ acc
                      sep == Head(v.rest)
                  IN  CASE sep = RB ->
                             [ok |-> TRUE, val |-> Obj(acc2), rest |-> Tail(v.rest)]
                        [] sep = COMMA -> ParseMembers(Tail(v.rest), acc2)
                        [] OTHER -> ParseFail

JSONparse(text) ==
    LET p == ParseValue(text)
    IN  IF p.ok /\ p.rest = <<>> THEN p ELSE ParseFail

-----------------------------------------------------------------------------
(* fast-redact, as createLogger compiles it: serialize is false.           *)

Reserved == {"v", "level", "name", "hostname", "pid", "time", "src"}

DefaultCensor == Str("[REDACTED]")

\* A censor function of the configuration: (value) => a mask of its type.
CensorFn(val) == IF val.t = "str" THEN Str("#str") ELSE Str("#obj")

\* What a rule writes over the value it targets.
CensorOf(censor, val) ==
    CASE censor.kind = "fn" -> CensorFn(val)
      [] censor.kind = "value" -> Str(censor.v)
      [] OTHER -> DefaultCensor

\* fastRedact({...redactConfig, serialize: false}): throws when remove is
\* set, since remove needs the JSON.stringify serializer; with no paths the
\* redactor is the identity.
fastRedact(redactConfig) ==
    [ok |-> ~redactConfig.remove,
     paths |-> redactConfig.paths,
     censor |-> redactConfig.censor]

\* One path rule applied to value v: the value at the path, when it exists
\* and is not undefined, is overwritten IN PLACE. An object held by
\* reference is written through the heap. [val, heap].
RECURSIVE RedactPath(_, _, _, _)
RedactPath(h, v, path, censor) ==
    IF ~IsObject(v) \/ path = <<>> THEN [val |-> v, heap |-> h]
    ELSE LET c == CellOf(h, v)
             k == Head(path)
         IN  IF k \notin DOMAIN c \/ c[k].t = "undef"
             THEN [val |-> v, heap |-> h]
             ELSE LET r == IF Len(path) = 1
                           THEN [val |-> CensorOf(censor, c[k]), heap |-> h]
                           ELSE RedactPath(h, c[k], Tail(path), censor)
                  IN  IF v.t = "ref"
                      THEN [val |-> v,
                            heap |-> [r.heap EXCEPT ![v.a] =
                                        [r.heap[v.a] EXCEPT ![k] = r.val]]]
                      ELSE [val |-> Obj([c EXCEPT ![k] = r.val]),
                            heap |-> r.heap]

RECURSIVE RedactPaths(_, _, _, _)
RedactPaths(h, v, paths, censor) ==
    IF paths = <<>> THEN [val |-> v, heap |-> h]
    ELSE LET r == RedactPath(h, v, Head(paths), censor)
         IN  RedactPaths(r.heap, r.val, Tail(paths), censor)

\* redact(o): [threw, val, heap]. With rules and strict (the default) a
\* primitive is refused.
redact(rd, h, v) ==
    IF rd.paths = <<>> THEN [threw |-> FALSE, val |-> v, heap |-> h]
    ELSE IF ~IsObject(v) THEN [threw |-> TRUE, val |-> v, heap |-> h]
    ELSE LET r == RedactPaths(h, v, rd.paths, rd.censor)
         IN  [threw |-> FALSE, val |-> r.val, heap |-> r.heap]

-----------------------------------------------------------------------------
(* The _emit interceptor.                                                  *)

\* redactConfig?.globalReplace ?? ((value) => value), applied to the text.
\* "replace" is text.replace(/from/g, to): it rewrites every string of the
\* text, keys as well as values. "truncate" is a function whose output is
\* no JSON text; "constant" is () => '"[REDACTED]"', whose output is the
\* JSON text of a string.
globalReplace(gr, text) ==
    CASE gr.kind = "replace" ->
            [i \in DOMAIN text |->
                IF text[i].t = "s" /\ text[i].s = gr.from
                THEN STok(gr.to) ELSE text[i]]
      [] gr.kind = "truncate" -> SubSeq(text, 1, Len(text) - 1)
      [] gr.kind = "constant" -> <<STok("[REDACTED]")>>
      [] OTHER -> text

\* const { v, level, name, hostname, pid, time, src, ...rest } = logRecord
RestOf(logRecord) ==
    [k \in DOMAIN logRecord \ Reserved |-> logRecord[k]]

\* Mutant of CopyRest: rest itself is handed to redact, no copy is made.
CopyRestShared(gr, h, rest) == [ok |-> TRUE, val |-> Obj(rest)]

\* JSON.parse(globalReplace(JSON.stringify(rest))): [ok, val].
CopyRest(gr, h, rest) ==
    IF ~Serializable(h, Obj(rest)) THEN [ok |-> FALSE, val |-> Undefined]
    ELSE LET p == JSONparse(globalReplace(gr, JSONstringify(h, Obj(rest))))
         IN  [ok |-> p.ok, val |-> p.val]

\* The characters of a string that can reach Object.assign as a source.
CharsOf(str) ==
    IF str = "[REDACTED]"
    THEN <<"[", "R", "E", "D", "A", "C", "T", "E", "D", "]">>
    ELSE <<str>>

\* Object.assign(target, source): the source's own keys overwrite the
\* target's; no key of the target is removed. The own keys of a string are
\* its indices; a number or a boolean has none.
ObjectAssign(target, source) ==
    CASE source.t = "obj" -> source.o @@ target
      [] source.t = "str" ->
            LET cs == CharsOf(source.s)
            IN  [i \in {ToString(n - 1) : n \in DOMAIN cs} |->
                    Str(cs[CHOOSE n \in DOMAIN cs : ToString(n - 1) = i])]
                @@ target
      [] OTHER -> target

\* Mutant of EmitProxy: a failure to copy the payload is swallowed and the
\* record is forwarded as it came.
EmitProxySwallow(redactConfig, h, logRecord) ==
    LET rest == [k \in DOMAIN logRecord \ Reserved |-> logRecord[k]]
        ok == Serializable(h, Obj(rest))
        p == IF ok
             THEN JSONparse(globalReplace(redactConfig.globalReplace,
                                          JSONstringify(h, Obj(rest))))
             ELSE ParseFail
    IN  IF ~p.ok THEN [threw |-> FALSE, rec |-> logRecord, heap |-> h]
        ELSE LET r == redact(fastRedact(redactConfig), h, p.val)
             IN  [threw |-> r.threw,
                  rec |-> IF r.threw THEN logRecord
                          ELSE ObjectAssign(logRecord, r.val),
                  heap |-> r.heap]

\* The apply trap of the Proxy: [threw, rec, heap]. rec is the log record
\* object as the trap leaves it; when threw is FALSE it is what is passed to
\* the original _emit.
EmitProxy(redactConfig, h, logRecord) ==
    LET rest == RestOf(logRecord)
        copy == CopyRest(redactConfig.globalReplace, h, rest)
    IN  IF ~copy.ok THEN [threw |-> TRUE, rec |-> logRecord, heap |-> h]
        ELSE LET r == redact(fastRedact(redactConfig), h, copy.val)
             IN  IF r.threw
                 THEN [threw |-> TRUE, rec |-> logRecord, heap |-> r.heap]
                 ELSE [threw |-> FALSE,
                       rec |-> ObjectAssign(logRecord, r.val),
                       heap |-> r.heap]

-----------------------------------------------------------------------------
(* The serializers (createDetailedRequestSerializers). A serializer reads  *)
(* properties of its argument; reading a property of undefined throws.     *)

\* Mutant of reqSerializer: url prefers req.url over req.originalUrl.
reqSerializerRawUrl(h, req) ==
    IF ~Truthy(req) \/ ~Truthy(Get(h, req, "connection"))
    THEN [threw |-> FALSE, val |-> req]
    ELSE LET connection == Get(h, req, "connection")
         IN  [threw |-> FALSE,
              val |-> Obj([method |-> Get(h, req, "method"),
                           url |-> OrElse(Get(h, req, "url"),
                                          Get(h, req, "originalUrl")),
                           query |-> Get(h, req, "query"),
                           body |-> Get(h, req, "body"),
                           headers |-> Get(h, req, "headers"),
                           remoteAddress |-> Get(h, connection, "remoteAddress"),
                           remotePort |-> Get(h, connection, "remotePort")])]

\* serializers.req: [threw, val]. threw: a property of undefined was read.
reqSerializer(h, req) ==
    IF ~Truthy(req) \/ ~Truthy(Get(h, req, "connection"))
    THEN [threw |-> FALSE, val |-> req]
    ELSE LET connection == Get(h, req, "connection")
         IN  [threw |-> req.t = "undef" \/ connection.t = "undef",
              val |-> Obj([method |-> Get(h, req, "method"),
                           url |-> OrElse(Get(h, req, "originalUrl"),
                                          Get(h, req, "url")),
                           query |-> Get(h, req, "query"),
                           body |-> Get(h, req, "body"),
                           headers |-> Get(h, req, "headers"),
                           remoteAddress |-> Get(h, connection, "remoteAddress"),
                           remotePort |-> Get(h, connection, "remotePort")])]

\* serializers.res: [threw, val].
resSerializer(h, res) ==
    IF ~Truthy(res) \/ ~Truthy(Get(h, res, "statusCode"))
    THEN [threw |-> FALSE, val |-> res]
    ELSE [threw |-> res.t = "undef",
          val |-> Obj([statusCode |-> Get(h, res, "statusCode"),
                       header |-> Get(h, res, "_header")])]

-----------------------------------------------------------------------------
(* The logger factory.                                                     *)

\* bunyan's level numbers.
resolveLevel(level) ==
    CASE level = "trace" -> 10
      [] level = "debug" -> 20
      [] level = "info" -> 30
      [] level = "warn" -> 40
      [] level = "error" -> 50
      [] OTHER -> 60

\* Mutant of getGoogleServiceName: K_SERVICE is looked at first.
getGoogleServiceNameKFirst(e) == OrElse(e.K_SERVICE, e.GAE_SERVICE)

\* process.env.GAE_SERVICE || process.env.K_SERVICE
getGoogleServiceName(e) == OrElse(e.GAE_SERVICE, e.K_SERVICE)

NoLogger == [state |-> "none"]

\* createLogger({level, redact}): the logger returned, or state "threw"
\* when fastRedact rejects the configuration. ownEmit says that the object
\* has an _emit property of its own, the Proxy.
createLogger(e, o) ==
    LET logLevel == OrElse(OrElse(o.level, e.LOG_LEVEL), Str("info"))
        googleServiceName == getGoogleServiceName(e)
        managed == Truthy(googleServiceName)
        name == IF managed THEN googleServiceName.s ELSE "default"
        streams == IF managed
                   THEN <<[kind |-> "LoggingBunyan", level |-> logLevel.s]>>
                   ELSE <<[kind |-> "PrettyStream", level |-> logLevel.s]>>
    IN  IF ~fastRedact(o.redact).ok THEN [state |-> "threw"]
        ELSE [state |-> "ready",
              name |-> name,
              streams |-> streams,
              level |-> resolveLevel(streams[1].level),
              fields |-> [name |-> Str(name), hostname |-> Str("host"),
                          pid |-> Num(1)],
              ownEmit |-> TRUE]

\* logger.child(options, true): a new Logger object that shares the
\* parent's level, streams and serializers and copies its fields. _emit is
\* not among what the constructor copies: the child finds it on
\* Logger.prototype, which createLogger did not patch.
child(parent, options) ==
    [state |-> "ready",
     name |-> parent.name,
     streams |-> parent.streams,
     level |-> parent.level,
     fields |-> options @@ parent.fields,
     ownEmit |-> FALSE]

\* makeChildLogger(trace, span) of createLoggingMiddleware.
makeChildLogger(lg, trace, span) ==
    child(lg, [trace |-> trace, spanId |-> span])

\* bunyan builds the record of a log call: the logger's fields, the level,
\* a shallow copy of the call's fields with the serializers applied, msg,
\* time and v. The objects the fields refer to are shared, not copied.
mkRecord(lg, lvl, h, fields, msg) ==
    LET c == IF IsObject(fields) THEN CellOf(h, fields) ELSE EmptyObj
        recFields ==
            [k \in DOMAIN c |->
                CASE k = "req" /\ c[k].t # "undef" -> reqSerializer(h, c[k]).val
                  [] k = "res" /\ c[k].t # "undef" -> resSerializer(h, c[k]).val
                  [] OTHER -> c[k]]
        r1 == recFields @@ ("level" :> Num(lvl)) @@ lg.fields
        r2 == ("msg" :> Str(msg)) @@ r1
        r3 == IF "time" \in DOMAIN r2 /\ Truthy(r2["time"]) THEN r2
              ELSE ("time" :> Str("now")) @@ r2
    IN  ("v" :> Num(0)) @@ r3

\* Mutant of ReflectApply: the original _emit is called twice.
ReflectApplyTwice(w, entry) == Append(Append(w, entry), entry)

\* Reflect.apply(target, thisArgument, argumentsList): the original _emit
\* is called with the record.
ReflectApply(w, entry) == Append(w, entry)

\* A log call lg.<lvl>(fields, msg) and all it leads to. Below the logger's
\* level the call returns at once. Otherwise the record is built and
\* lg._emit(rec) runs: the Proxy when the object has one, else the
\* prototype's _emit.
DoLog(lgId, lg, lvl, fields, msg) ==
    LET id == calls + 1
        rec == mkRecord(lg, lvl, heap, fields, msg)
        entry == Resolve(heap, Obj(rec)).o
    IN  /\ calls' = id
        /\ IF lg.level > lvl
           THEN UNCHANGED <<heap, raised, emitLog, written>>
           ELSE IF lg.ownEmit
           THEN LET r == EmitProxy(opts.redact, heap, rec)
                    after == Resolve(r.heap, Obj(r.rec)).o
                IN  /\ heap' = r.heap
                    /\ emitLog' = Append(emitLog,
                          [call |-> id, entry |-> entry,
                           threw |-> r.threw, after |-> after])
                    /\ raised' = IF r.threw THEN raised \cup {id} ELSE raised
                    /\ written' =
                          IF r.threw THEN written
                          ELSE ReflectApply(written,
                                 [call |-> id, lg |-> lgId, lvl |-> lvl,
                                  fields |-> fields, via |-> TRUE,
                                  rec |-> after])
           ELSE /\ written' = Append(written,
                                 [call |-> id, lg |-> lgId, lvl |-> lvl,
                                  fields |-> fields, via |-> FALSE,
                                  rec |-> entry])
                /\ UNCHANGED <<heap, raised, emitLog>>

-----------------------------------------------------------------------------
(* The caller's objects and the configurations the model draws from.       *)

\* Payload objects of the application. 2 holds a reference to 3.
CallerHeap ==
    (1 :> [id |-> Str("a"), password |-> Str("secret")])
    @@ (2 :> [user |-> Ref(3)])
    @@ (3 :> [id |-> Str("a"), password |-> Str("secret")])
    @@ (4 :> [big |-> BigIntVal])
    @@ (5 :> [v1 |-> Str("a")])

Payloads == {Ref(1), Ref(2), Ref(4), Ref(5)}

PathSets ==
    { <<>>,
      << <<"password">>, <<"user", "password">>, <<"hostname">> >>,
      << <<"msg">>, <<"user", "password">> >> }

Censors ==
    { [kind |-> "default"], [kind |-> "value", v |-> "***"], [kind |-> "fn"] }

GlobalReplaces ==
    { [kind |-> "none"],
      [kind |-> "replace", from |-> "secret", to |-> "[REDACTED]"],
      [kind |-> "replace", from |-> "password", to |-> "[REDACTED]"],
      [kind |-> "replace", from |-> "v1", to |-> "v"],
      [kind |-> "truncate"],
      [kind |-> "constant"] }

NoRedact ==
    [paths |-> <<>>, censor |-> [kind |-> "default"], remove |-> FALSE,
     globalReplace |-> [kind |-> "none"]]

RedactConfigs ==
    [paths : PathSets, censor : Censors, remove : {FALSE},
     globalReplace : GlobalReplaces]
    \cup [paths : {<< <<"password">> >>}, censor : {[kind |-> "default"]},
          remove : {TRUE}, globalReplace : {[kind |-> "none"]}]

NoEnv == [GAE_SERVICE |-> Undefined, K_SERVICE |-> Undefined,
          LOG_LEVEL |-> Undefined]

-----------------------------------------------------------------------------
(* The application logging through the logger and a child of it.           *)

InitLog ==
    /\ env = NoEnv
    /\ opts \in [level : {Undefined}, redact : RedactConfigs]
    /\ logger = NoLogger
    /\ children = <<>>
    /\ heap = CallerHeap
    /\ calls = 0
    /\ raised = {}
    /\ emitLog = <<>>
    /\ written = <<>>
    /\ reqs = <<>>
    /\ serIn = Undefined
    /\ serOut = Undefined

CreateLogger ==
    /\ logger.state = "none"
    /\ logger' = createLogger(env, opts)
    /\ UNCHANGED <<env, opts, children, heap, calls, raised, emitLog, written,
                   reqs, serIn, serOut>>

\* logger.child({...}, true)
Child ==
    /\ logger.state = "ready"
    /\ Len(children) < MaxChildren
    /\ children' = Append(children,
                      makeChildLogger(logger, Str("trace"), Str("span")))
    /\ UNCHANGED <<env, opts, logger, heap, calls, raised, emitLog, written,
                   reqs, serIn, serOut>>

\* logger.debug(P, "m") or logger.info(P, "m") on the logger (0) or a child.
Log(lgId, lvl, P) ==
    /\ logger.state = "ready"
    /\ calls < MaxCalls
    /\ lgId \in 0..Len(children)
    /\ DoLog(lgId, IF lgId = 0 THEN logger ELSE children[lgId], lvl, P, "m")
    /\ UNCHANGED <<env, opts, logger, children, reqs, serIn, serOut>>

NextLog ==
    \/ CreateLogger
    \/ Child
    \/ \E lgId \in 0..MaxChildren, lvl \in {20, 30}, P \in Payloads :
          Log(lgId, lvl, P)

SpecLog == InitLog /\ [][NextLog]_vars

-----------------------------------------------------------------------------
(* Properties of the interceptor, checked under SpecLog.                   *)

\* The value at a path of an object tree, undefined when there is none.
RECURSIVE ValueAt(_, _)
ValueAt(v, path) ==
    IF path = <<>> THEN v
    ELSE IF v.t = "obj" /\ Head(path) \in DOMAIN v.o
    THEN ValueAt(v.o[Head(path)], Tail(path))
    ELSE Undefined

ViaProxy(w) == w.via
Completed(e) == ~e.threw

\* C1: a log call leaves the payload object and every object reachable
\* from it as they were, and logging the same object again on the same
\* logger at the same level gives the same record.
C1_PayloadNeverMutated ==
    /\ heap = CallerHeap
    /\ \A i, j \in DOMAIN written :
          (/\ written[i].lg = written[j].lg
           /\ written[i].lvl = written[j].lvl
           /\ written[i].fields = written[j].fields)
          => written[i].rec = written[j].rec

\* The object with the nested user was logged twice through the Proxy and a
\* rule censored user.password both times.
C1_Witness ==
    \E i, j \in DOMAIN written :
       /\ i < j
       /\ written[i].via /\ written[j].via
       /\ written[i].fields = Ref(2) /\ written[j].fields = Ref(2)
       /\ ValueAt(Obj(written[j].rec), <<"user", "password">>) = DefaultCensor
       /\ ValueAt(Obj(written[i].rec), <<"user", "password">>) = DefaultCensor

\* C2: the reserved fields of the record the Proxy forwards are those the
\* record had when the Proxy was entered.
C2_ReservedPreserved ==
    \A i \in DOMAIN emitLog :
       LET e == emitLog[i]
       IN  ~e.threw =>
             \A k \in Reserved :
                /\ (k \in DOMAIN e.entry) <=> (k \in DOMAIN e.after)
                /\ (k \in DOMAIN e.entry) => e.after[k] = e.entry[k]

\* The values a censor of the configuration can produce.
CensorResults(censor) ==
    {CensorOf(censor, Str("x")), CensorOf(censor, Obj(EmptyObj))}

\* C3: in every record the Proxy forwards, the payload field at each path a
\* rule targets holds the censor's result and not its original value, and
\* every field of the record on entry is still there.
C3_TargetedFieldsRedacted ==
    \A i \in DOMAIN emitLog :
       LET e == emitLog[i]
           paths == opts.redact.paths
       IN  ~e.threw =>
             /\ DOMAIN e.entry \subseteq DOMAIN e.after
             /\ \A n \in DOMAIN paths :
                   LET orig == ValueAt(Obj(e.entry), paths[n])
                       now == ValueAt(Obj(e.after), paths[n])
                   IN  (Head(paths[n]) \notin Reserved /\ orig.t # "undef")
                       => /\ now # orig
                          /\ now \in CensorResults(opts.redact.censor)

\* C4: every record handed to the original _emit, on the logger or on a
\* child of it, came out of the Proxy.
C4_EveryWriteIntercepted ==
    \A i \in DOMAIN written :
       \E n \in DOMAIN emitLog :
          /\ emitLog[n].call = written[i].call
          /\ ~emitLog[n].threw
          /\ emitLog[n].after = written[i].rec

\* C5: the records the Proxy passes to the original _emit are, one for one
\* and in the order of the log calls, the records of the Proxy's
\* invocations that did not throw.
C5_ForwardedOnceInOrder ==
    LET fwd == SelectSeq(written, ViaProxy)
        done == SelectSeq(emitLog, Completed)
    IN  /\ Len(fwd) = Len(done)
        /\ \A i \in DOMAIN fwd :
              /\ fwd[i].call = done[i].call
              /\ fwd[i].rec = done[i].after
        /\ \A i, j \in DOMAIN fwd : i < j => fwd[i].call < fwd[j].call

\* Two log calls with different payloads went through the Proxy.
C5_Witness ==
    \E i, j \in DOMAIN written :
       /\ i < j
       /\ written[i].via /\ written[j].via
       /\ written[i].fields # written[j].fields

\* The copy of the payload cannot be made: JSON.stringify throws on it, or
\* the output of globalReplace is no JSON text.
CopyFails(e) ==
    \/ ~Serializable(CallerHeap, Obj(RestOf(e.entry)))
    \/ opts.redact.globalReplace.kind = "truncate"

\* C6: when the payload cannot be serialized or the output of globalReplace
\* cannot be parsed, the log call throws, the original _emit is not called
\* for the record, and the record is as it was on entry.
C6_FailureRaisesAndWritesNothing ==
    \A i \in DOMAIN emitLog :
       LET e == emitLog[i]
       IN  CopyFails(e) =>
             /\ e.threw
             /\ e.call \in raised
             /\ e.after = e.entry
             /\ \A n \in DOMAIN written : written[n].call # e.call

\* Both failures happened on one logger: an unparseable globalReplace
\* output for one call and a BigInt payload for another.
C6_Witness ==
    /\ opts.redact.globalReplace.kind = "truncate"
    /\ \E i, j \in DOMAIN emitLog :
          /\ emitLog[i].threw /\ emitLog[j].threw
          /\ Serializable(CallerHeap, Obj(RestOf(emitLog[i].entry)))
          /\ ~Serializable(CallerHeap, Obj(RestOf(emitLog[j].entry)))

-----------------------------------------------------------------------------
(* The request logging middleware (createLoggingMiddleware).               *)

MaxUrlLen == 3

UrlChars == {"/", "f", "x"}

\* Request URLs as sequences of characters; NoUrl for a request without one.
NoUrl == <<"undefined">>
Urls == UNION {[1..n -> UrlChars] : n \in 0..MaxUrlLen} \cup {NoUrl}

RECURSIVE Join(_)
Join(cs) == IF cs = <<>> THEN "" ELSE Head(cs) \o Join(Tail(cs))

\* The characters of the service names the model uses.
Chars(name) ==
    CASE name = "f" -> <<"f">>
      [] name = "fx" -> <<"f", "x">>
      [] OTHER -> <<>>

\* String.prototype.startsWith
StartsWith(cs, prefix) ==
    /\ Len(cs) >= Len(prefix)
    /\ SubSeq(cs, 1, Len(prefix)) = prefix

UrlValue(url) == IF url = NoUrl THEN Undefined ELSE Str(Join(url))

\* requestUrl?.startsWith('/') && !requestUrl.startsWith(`/${name}`)
\*   ? `/${name}${requestUrl}` : requestUrl
RewriteUrl(cloudFunctionName, requestUrl) ==
    IF /\ requestUrl # NoUrl
       /\ StartsWith(requestUrl, <<"/">>)
       /\ ~StartsWith(requestUrl, <<"/">> \o Chars(cloudFunctionName))
    THEN <<"/">> \o Chars(cloudFunctionName) \o requestUrl
    ELSE requestUrl

\* The request and response objects of an exchange.
ReqObject(url) ==
    Obj([method |-> Str("GET"),
         url |-> UrlValue(url),
         headers |-> Obj([secret |-> Str("secret")]),
         connection |-> Obj([remoteAddress |-> Str("10.0.0.1"),
                             remotePort |-> Num(1)])])

ResObject == Obj([statusCode |-> Num(200), _header |-> Str("HTTP/1.1 200 OK")])

\* makeHttpRequestData(req, res, latency) of @google-cloud/logging.
HttpRequestData(url) ==
    [requestMethod |-> Str("GET"), requestUrl |-> UrlValue(url),
     status |-> Num(200)]

\* The fields emitRequestLog passes to logger.info. trace, spanId and
\* traceSampled stand for the three logging.googleapis.com keys.
emitRequestLog(e, url, trace, span, sampled) ==
    LET cloudFunctionName == e.K_SERVICE
        base == [req |-> ReqObject(url), res |-> ResObject]
    IN  IF Truthy(cloudFunctionName)
        THEN Obj([httpRequest |->
                     Obj(("requestUrl" :>
                            UrlValue(RewriteUrl(cloudFunctionName.s, url)))
                         @@ HttpRequestData(url)),
                  trace |-> trace,
                  spanId |-> span,
                  traceSampled |-> sampled] @@ base)
        ELSE Obj(base)

\* Mutant of CallNext: next() is called a second time.
CallNextTwice(n) == n + 2

\* next()
CallNext(n) == n + 1

\* The request URLs of the exchanges SpecMw runs.
MwUrls == {NoUrl, <<"/">>, <<"/", "x">>}

InitMw ==
    /\ env \in [GAE_SERVICE : {Undefined},
                K_SERVICE : {Undefined, Str("f")},
                LOG_LEVEL : {Undefined}]
    /\ opts \in [level : {Undefined, Str("warn")},
                 redact : {NoRedact,
                           [NoRedact EXCEPT !.globalReplace =
                                               [kind |-> "truncate"]]}]
    /\ logger = NoLogger
    /\ children = <<>>
    /\ heap = CallerHeap
    /\ calls = 0
    /\ raised = {}
    /\ emitLog = <<>>
    /\ written = <<>>
    /\ reqs = <<>>
    /\ serIn = Undefined
    /\ serOut = Undefined

\* The middleware handles a request: makeMiddleware installs the child
\* logger as req.log, registers the request log on the end of the response
\* and calls next().
Middleware(url) ==
    /\ logger.state = "ready"
    /\ Len(reqs) < MaxReqs
    /\ children' = Append(children,
                      makeChildLogger(logger, Str("trace"), Str("span")))
    /\ reqs' = Append(reqs, [pc |-> "handling", url |-> url,
                             nextCalls |-> CallNext(0), infoCalls |-> <<>>])
    /\ UNCHANGED <<env, opts, logger, heap, calls, raised, emitLog, written,
                   serIn, serOut>>

\* The response of request i finishes: the registered callback runs
\* emitRequestLog, which calls logger.info(fields, 'Request finished').
Finish(i) ==
    /\ i \in DOMAIN reqs
    /\ reqs[i].pc = "handling"
    /\ DoLog(0, logger, 30,
             emitRequestLog(env, reqs[i].url, Str("trace"), Str("span"),
                            Bool(TRUE)),
             "Request finished")
    /\ reqs' = [reqs EXCEPT ![i].pc = "finished",
                            ![i].infoCalls = Append(@, calls + 1)]
    /\ UNCHANGED <<env, opts, logger, children, serIn, serOut>>

NextMw ==
    \/ CreateLogger
    \/ \E url \in MwUrls : Middleware(url)
    \/ \E i \in 1..MaxReqs : Finish(i)

SpecMw == InitMw /\ [][NextMw]_vars

\* One exchange, for every request URL and service name of the model.
InitUrl ==
    /\ env \in [GAE_SERVICE : {Undefined},
                K_SERVICE : {Undefined, Str(""), Str("f"), Str("fx")},
                LOG_LEVEL : {Undefined}]
    /\ opts = [level |-> Undefined, redact |-> NoRedact]
    /\ logger = NoLogger
    /\ children = <<>>
    /\ heap = CallerHeap
    /\ calls = 0
    /\ raised = {}
    /\ emitLog = <<>>
    /\ written = <<>>
    /\ reqs = <<>>
    /\ serIn = Undefined
    /\ serOut = Undefined

NextUrl ==
    \/ CreateLogger
    \/ \E url \in Urls : reqs = <<>> /\ Middleware(url)
    \/ Finish(1)

SpecUrl == InitUrl /\ [][NextUrl]_vars

\* The records written for request i by the log call of emitRequestLog.
RequestFinishedRecords(i) ==
    {n \in DOMAIN written :
        /\ \E c \in DOMAIN reqs[i].infoCalls :
              reqs[i].infoCalls[c] = written[n].call
        /\ written[n].rec["msg"] = Str("Request finished")
        /\ written[n].rec["level"] = Num(30)}

\* C7 as stated: next() is called once for each request, and one "Request
\* finished" record at level info is written for it when the response has
\* finished, none before.
C7_OneRecordPerRequest ==
    \A i \in DOMAIN reqs :
       /\ reqs[i].nextCalls = 1
       /\ Cardinality(RequestFinishedRecords(i)) =
             IF reqs[i].pc = "finished" THEN 1 ELSE 0

\* C7 amended: next() is called once for each request; emitRequestLog makes
\* one logger.info call when the response has finished and none before;
\* that call writes one record when the logger's level is info or lower and
\* the interceptor does not throw, and no record otherwise.
C7_OneInfoCallPerRequest ==
    \A i \in DOMAIN reqs :
       /\ reqs[i].nextCalls = 1
       /\ Len(reqs[i].infoCalls) = IF reqs[i].pc = "finished" THEN 1 ELSE 0
       /\ Cardinality(RequestFinishedRecords(i)) =
             IF /\ reqs[i].pc = "finished"
                /\ logger.level <= 30
                /\ reqs[i].infoCalls[1] \notin raised
             THEN 1 ELSE 0

\* Two requests were handled; the first has finished and has its record,
\* the second has not.
C7_Witness ==
    /\ Len(reqs) = 2
    /\ reqs[1].pc = "finished" /\ reqs[2].pc = "handling"
    /\ Cardinality(RequestFinishedRecords(1)) = 1
    /\ Cardinality(RequestFinishedRecords(2)) = 0

\* The first path segment of a URL that begins with "/": the characters
\* between that "/" and the next one.
RECURSIVE UpToSlash(_)
UpToSlash(cs) ==
    IF cs = <<>> \/ Head(cs) = "/" THEN <<>>
    ELSE <<Head(cs)>> \o UpToSlash(Tail(cs))

LeadingSegment(url) == UpToSlash(Tail(url))

\* C10, for request URLs that begin with "/": under the function host with
\* function name F the record's httpRequest.requestUrl is the request URL
\* when F is its leading path segment and "/F" followed by the request URL
\* when it is not; rewriting a rewritten URL changes nothing; without the
\* function host the record has no httpRequest.
C10_PrefixedUnlessLeadingSegment ==
    \A i \in DOMAIN reqs :
       \A n \in RequestFinishedRecords(i) :
          LET url == reqs[i].url
              rec == written[n].rec
          IN  IF Truthy(env.K_SERVICE)
              THEN (url # NoUrl /\ StartsWith(url, <<"/">>)) =>
                   LET F == Chars(env.K_SERVICE.s)
                       expected == IF LeadingSegment(url) = F THEN url
                                   ELSE <<"/">> \o F \o url
                   IN  /\ ValueAt(Obj(rec), <<"httpRequest", "requestUrl">>)
                            = Str(Join(expected))
                       /\ RewriteUrl(env.K_SERVICE.s, expected) = expected
              ELSE "httpRequest" \notin DOMAIN rec

-----------------------------------------------------------------------------
(* The factory under every environment and level option.                   *)

InitFactory ==
    /\ env \in [GAE_SERVICE : {Undefined, Str(""), Str("svc")},
                K_SERVICE : {Undefined, Str(""), Str("f")},
                LOG_LEVEL : {Undefined, Str(""), Str("warn")}]
    /\ opts \in [level : {Undefined, Str("debug"), Str("error")},
                 redact : {NoRedact, [NoRedact EXCEPT !.remove = TRUE]}]
    /\ logger = NoLogger
    /\ children = <<>>
    /\ heap = CallerHeap
    /\ calls = 0
    /\ raised = {}
    /\ emitLog = <<>>
    /\ written = <<>>
    /\ reqs = <<>>
    /\ serIn = Undefined
    /\ serOut = Undefined

NextFactory ==
    \/ CreateLogger
    \/ \E lvl \in {20, 30, 40, 50} : Log(0, lvl, Ref(1))

SpecFactory == InitFactory /\ [][NextFactory]_vars

\* An environment variable or option that is set: a non-empty string.
IsSet(x) == x.t = "str" /\ x.s # ""

\* C8: the logger has one stream, at the level option, else LOG_LEVEL, else
\* info; with GAE_SERVICE set, else K_SERVICE set, it is the LoggingBunyan
\* stream and the logger is named after that variable; with neither set it
\* is the PrettyStream and the logger is named "default". Records below
\* that level are not written, and a written record carries that name.
C8_OneStreamByEnvironment ==
    logger.state = "ready" =>
       LET wanted == IF IsSet(opts.level) THEN opts.level.s
                     ELSE IF IsSet(env.LOG_LEVEL) THEN env.LOG_LEVEL.s
                     ELSE "info"
           service == IF IsSet(env.GAE_SERVICE) THEN env.GAE_SERVICE.s
                      ELSE IF IsSet(env.K_SERVICE) THEN env.K_SERVICE.s
                      ELSE "default"
           managed == IsSet(env.GAE_SERVICE) \/ IsSet(env.K_SERVICE)
       IN  /\ Len(logger.streams) = 1
           /\ logger.streams[1].level = wanted
           /\ logger.streams[1].kind =
                 IF managed THEN "LoggingBunyan" ELSE "PrettyStream"
           /\ logger.name = service
           /\ \A n \in DOMAIN written :
                 /\ written[n].lvl >= resolveLevel(wanted)
                 /\ written[n].rec["name"] = Str(service)

\* Both service variables are set, the level comes from LOG_LEVEL, and a
\* record was written.
C8_Witness ==
    /\ logger.state = "ready"
    /\ IsSet(env.GAE_SERVICE) /\ IsSet(env.K_SERVICE)
    /\ ~IsSet(opts.level) /\ IsSet(env.LOG_LEVEL)
    /\ logger.name = "svc"
    /\ written # <<>>

-----------------------------------------------------------------------------
(* The serializers on well-formed and malformed values.                    *)

Connections ==
    {Undefined, Str(""), Obj(EmptyObj),
     Obj([remoteAddress |-> Str("10.0.0.1"), remotePort |-> Num(1)])}

ReqInputs ==
    {Obj([method |-> Str("GET"), url |-> u, originalUrl |-> o,
          query |-> Obj([id |-> Str("a")]), body |-> b,
          headers |-> Obj([secret |-> Str("secret")]),
          connection |-> c, socket |-> Str("socket")]) :
        u \in {Undefined, Str("/u")}, o \in {Undefined, Str(""), Str("/orig")},
        b \in {Undefined, Str("body")}, c \in Connections}

ResInputs ==
    {Obj([statusCode |-> sc, _header |-> hd, socket |-> Str("socket")]) :
        sc \in {Undefined, Num(0), Num(200)},
        hd \in {Undefined, Str("HTTP/1.1 200 OK")}}

SerInputs ==
    ReqInputs \cup ResInputs
    \cup {Undefined, Str(""), Str("x"), Num(0), Obj(EmptyObj),
          Obj([connection |-> Bool(TRUE)])}

NotSerialized == [kind |-> "none"]

InitSer ==
    /\ env = NoEnv
    /\ opts = [level |-> Undefined, redact |-> NoRedact]
    /\ logger = NoLogger
    /\ children = <<>>
    /\ heap = CallerHeap
    /\ calls = 0
    /\ raised = {}
    /\ emitLog = <<>>
    /\ written = <<>>
    /\ reqs = <<>>
    /\ serIn \in SerInputs
    /\ serOut = NotSerialized

\* createDetailedRequestSerializers().req(serIn)
SerializeReq ==
    /\ serOut = NotSerialized
    /\ serOut' = [kind |-> "req"] @@ reqSerializer(heap, serIn)
    /\ UNCHANGED <<env, opts, logger, children, heap, calls, raised, emitLog,
                   written, reqs, serIn>>

\* createDetailedRequestSerializers().res(serIn)
SerializeRes ==
    /\ serOut = NotSerialized
    /\ serOut' = [kind |-> "res"] @@ resSerializer(heap, serIn)
    /\ UNCHANGED <<env, opts, logger, children, heap, calls, raised, emitLog,
                   written, reqs, serIn>>

NextSer == SerializeReq \/ SerializeRes

SpecSer == InitSer /\ [][NextSer]_vars

\* Property k of a value; undefined when missing or when v is no object.
Prop(v, k) == IF v.t = "obj" /\ k \in DOMAIN v.o THEN v.o[k] ELSE Undefined

\* A property that is there with a usable value: not undefined, "", 0.
Has(v, k) ==
    LET x == Prop(v, k)
    IN  /\ x.t # "undef"
        /\ x # Str("")
        /\ x # Num(0)

\* C9: neither serializer throws; req returns its input when it has no
\* connection and else exactly method, url, query, body, headers,
\* remoteAddress and remotePort, url being originalUrl when there is one;
\* res returns its input when it has no status code and else exactly
\* statusCode and header.
C9_SerializersTotalAndExact ==
    /\ serOut.kind # "none" => ~serOut.threw
    /\ serOut.kind = "req" =>
          IF ~Has(serIn, "connection") THEN serOut.val = serIn
          ELSE /\ serOut.val.t = "obj"
               /\ DOMAIN serOut.val.o =
                     {"method", "url", "query", "body", "headers",
                      "remoteAddress", "remotePort"}
               /\ \A k \in {"method", "query", "body", "headers"} :
                     serOut.val.o[k] = Prop(serIn, k)
               /\ serOut.val.o["url"] =
                     IF Has(serIn, "originalUrl")
                     THEN Prop(serIn, "originalUrl") ELSE Prop(serIn, "url")
               /\ \A k \in {"remoteAddress", "remotePort"} :
                     serOut.val.o[k] = Prop(Prop(serIn, "connection"), k)
    /\ serOut.kind = "res" =>
          IF ~Has(serIn, "statusCode") THEN serOut.val = serIn
          ELSE /\ serOut.val.t = "obj"
               /\ DOMAIN serOut.val.o = {"statusCode", "header"}
               /\ serOut.val.o["statusCode"] = Prop(serIn, "statusCode")
               /\ serOut.val.o["header"] = Prop(serIn, "_header")

\* The req serializer summarised a request that has a connection and both
\* an originalUrl and a url.
C9_Witness ==
    /\ serOut.kind = "req"
    /\ Has(serIn, "connection")
    /\ Prop(serIn, "originalUrl") = Str("/orig")
    /\ Prop(serIn, "url") = Str("/u")
    /\ serOut.val.o["url"] = Str("/orig")

====
